---- MODULE Spec2Model ----
(***************************************************************************)
(* ContractAnalyzer: daily transaction profit analysis over the Etherscan  *)
(* API.  The module models                                                 *)
(*   - ContractAnalyzer.analyzeDailyTransactions / analyzeTransaction      *)
(*     (services/analyzer.ts) as the pipeline specification Spec,          *)
(*   - analyzeTransaction on its own over a wide input space (SpecProfit), *)
(*   - the batching loops of EtherscanAPI.getEventLogsByAddress and of the *)
(*     two extraction scripts (SpecBatch).                                 *)
(* Strings are tuples of one-character strings, so that toLowerCase,       *)
(* split, parseInt and BigInt are computed, not assumed.                   *)
(***************************************************************************)
EXTENDS Integers, Sequences, FiniteSets, TLC

(***************************************************************************)
(* Bounds of the model.                                                    *)
(***************************************************************************)
\* number of transactions of the contract on the modelled chain
MaxTx == 3
\* number of blocks of the modelled chain
NumBlocks == 5
\* rows the upstream returns per txlist call; stands for `offset: 10000`
MaxRows == 2
\* length of the internal-transfer list given to analyzeTransaction on its own
MaxTransfers == 2
\* highest block number of a batched range
MaxRangeBlock == 3
\* largest batching step tried
MaxStep == 3
\* hashes in the input file of a fan-out
MaxHashes == 3
\* lookups pMap keeps in flight (concurrency: 100 in the scripts)
Concurrency == 2

(***************************************************************************)
(* Program constants.                                                      *)
(***************************************************************************)
DaySeconds == 86400
AnchorHour == 14
SleepMs == 1000
\* hexadecimal characters of an address after 0x (/^0x[a-fA-F0-9]{40}$/)
AddressHexLength == 40

(***************************************************************************)
(* Strings.                                                                *)
(***************************************************************************)
Digits == <<"0", "1", "2", "3", "4", "5", "6", "7", "8", "9">>

IsDigit(c) == \E d \in 1..10 : Digits[d] = c

DigitVal(c) == (CHOOSE d \in 1..10 : Digits[d] = c) - 1

\* String.prototype.toLowerCase on one character of an address
LowerChar(c) ==
  CASE c = "A" -> "a" [] c = "B" -> "b" [] c = "C" -> "c"
    [] c = "D" -> "d" [] c = "E" -> "e" [] c = "F" -> "f"
    [] c = "X" -> "x" [] OTHER -> c

toLowerCase(s) == [k \in 1..Len(s) |-> LowerChar(s[k])]

\* value of the longest prefix of s made of decimal digits, from accumulator acc
RECURSIVE DecPrefix(_, _)
DecPrefix(s, acc) ==
  IF s = <<>> \/ ~IsDigit(Head(s)) THEN acc
  ELSE DecPrefix(Tail(s), acc * 10 + DigitVal(Head(s)))

\* parseInt(s): the leading decimal digits of s (NaN, modelled -1, if none)
parseInt(s) == IF s = <<>> \/ ~IsDigit(Head(s)) THEN -1 ELSE DecPrefix(s, 0)

\* BigInt(s) of a decimal string: every character is a digit ("" is 0n)
BigInt(s) == DecPrefix(s, 0)

\* Number(s) of a decimal string, as used on the terms of the date
Number(s) == DecPrefix(s, 0)

\* the decimal string of a natural number (what the upstream sends)
RECURSIVE DecString(_)
DecString(n) ==
  IF n < 10 THEN <<Digits[n + 1]>>
  ELSE Append(DecString(n \div 10), Digits[(n % 10) + 1])

\* String.prototype.split on a one-character separator
RECURSIVE split(_, _)
split(s, sep) ==
  IF \A k \in 1..Len(s) : s[k] # sep THEN <<s>>
  ELSE LET p == CHOOSE k \in 1..Len(s) :
                  s[k] = sep /\ \A j \in 1..(k - 1) : s[j] # sep
       IN <<SubSeq(s, 1, p - 1)>> \o split(SubSeq(s, p + 1, Len(s)), sep)

(***************************************************************************)
(* Date.UTC(year, monthIndex, day, hour, 0, 0) / 1000, in seconds.  The    *)
(* millisecond value is a multiple of 1000, so Math.floor changes nothing. *)
(***************************************************************************)
DaysFromCivil(y, m, d) ==
  LET yy == IF m <= 2 THEN y - 1 ELSE y
      era == yy \div 400
      yoe == yy - era * 400
      mp == IF m > 2 THEN m - 3 ELSE m + 9
      doy == (153 * mp + 2) \div 5 + d - 1
      doe == yoe * 365 + yoe \div 4 - yoe \div 100 + doy
  IN era * 146097 + doe - 719468

DateUTCSeconds(year, monthIndex, day, hour) ==
  DaysFromCivil(year, monthIndex + 1, day) * 86400 + hour * 3600

\* analyzer.ts 55-61: the 24-hour window of a date string
StartTimestampOf(date) ==
  LET terms == [k \in 1..Len(split(date, "-")) |-> Number(split(date, "-")[k])]
  IN DateUTCSeconds(terms[1], terms[2] - 1, terms[3], AnchorHour)

EndTimestampOf(date) == StartTimestampOf(date) + DaySeconds

(***************************************************************************)
(* State.                                                                  *)
(***************************************************************************)
VARIABLES
  \* ContractAnalyzer fields (analyzer.ts 23-27) and the inputs of one run
  contractAddress, mainWalletAddress, date,
  \* the ledger behind the Etherscan API: the contract's transactions and
  \* the number of the latest block
  chain, head,
  \* analyzeDailyTransactions: the pending await and the locals
  pc, startTimestamp, endTimestamp, latestBlock, startBlock, endBlock,
  transactions, dayTransactions, analyzedTransactions, analysis,
  \* history: outcome of the txlist call, indices whose internal lookup failed
  fetchOutcome, lookupFailed,
  \* the run of an entry point: which one, the network calls issued so far,
  \* the wall clock read at line 73, the end block before the clamp of lines
  \* 80-85, and the code the process has exited with (empty while it runs)
  entry, calls, clockRead, resolvedEnd, exitCode,
  \* the number of external calls issued and not yet returned, and what main
  \* prints after the price lookup
  outstanding, report,
  \* analyzeTransaction on its own: the transaction, the upstream's internal
  \* transfers of it, the pending await, the outcome of the lookup and the
  \* TransactionProfit returned
  ptx, pinternal, ppc, poutcome, pprofit,
  \* a batching loop: which loop, its range, the blocks for which the
  \* upstream holds a record, the step of each run, the current run, the
  \* pending await, the loop cursor, the result list and the windows issued
  \* by each run, the step completed last, whether a call has failed
  bkind, bfrom, bto, brecords, bstep, brun, bpc, bcursor, bresult, bwindows,
  blast, bfaulted,
  \* a pMap fan-out: which script, the input hashes, the index of the next
  \* item to start, the items in flight, the items settled, the upstream's
  \* answer to each, the result array, the items whose mapper rejected, the
  \* position of the script, the file written, and whether an item has
  \* settled while an earlier one was still in flight
  fkind, fhashes, fnext, finflight, fdone, foutcome, fresults, ferrors, fpc,
  ffile, foutOfOrder

ledgerVars == <<chain, head>>

configVars == <<contractAddress, mainWalletAddress, date>>

pipeVars ==
  <<pc, startTimestamp, endTimestamp, latestBlock, startBlock, endBlock,
    transactions, dayTransactions, analyzedTransactions, analysis,
    fetchOutcome, lookupFailed>>

runVars ==
  <<entry, calls, clockRead, resolvedEnd, exitCode, outstanding, report>>

profitVars == <<ptx, pinternal, ppc, poutcome, pprofit>>

batchVars ==
  <<bkind, bfrom, bto, brecords, bstep, brun, bpc, bcursor, bresult, bwindows,
    blast, bfaulted>>

fanVars ==
  <<fkind, fhashes, fnext, finflight, fdone, foutcome, fresults, ferrors, fpc,
    ffile, foutOfOrder>>

vars ==
  <<configVars, ledgerVars, pipeVars, runVars, profitVars, batchVars, fanVars>>

\* what the actions of one part leave alone
nonPipeVars == <<profitVars, batchVars, fanVars>>

nonProfitVars == <<ledgerVars, pipeVars, runVars, batchVars, fanVars>>

nonBatchVars == <<configVars, ledgerVars, pipeVars, runVars, profitVars, fanVars>>

nonFanVars == <<configVars, ledgerVars, pipeVars, runVars, profitVars, batchVars>>

(***************************************************************************)
(* Addresses and records of the modelled runs.                             *)
(***************************************************************************)
\* SMART_CONTRACT_ADDRESS and MAIN_WALLET_ADDRESS as configured, mixed case
RawContractAddress == <<"0", "x", "C">>

RawWalletAddresses == {<<"0", "x", "A">>, <<"0", "x", "B">>}

OriginAddress == <<"0", "x", "B">>

OtherAddress == <<"0", "x", "d">>

Dates ==
  { <<"2", "0", "2", "5", "-", "0", "9", "-", "1", "0">>,
    <<"2", "0", "2", "5", "-", "0", "9", "-", "1", "1">> }

\* "no value yet" of a local that holds a record
NoAnalysis == [totalTransactions |-> -1]

NoProfit == [hash |-> <<>>]

NoReport == [outcome |-> "none"]

\* the ethusd member of a successful ethprice response
EthUsd == 2500

(***************************************************************************)
(* The ledger.  Blocks come in pairs around the 14:00 UTC boundaries:      *)
(* block 1 one second before 2025-09-10 14:00, block 2 exactly on it,      *)
(* block 3 one second before the next boundary, block 4 on it, and so on.  *)
(***************************************************************************)
FirstBoundary == DateUTCSeconds(2025, 8, 10, AnchorHour)

BlockTime(b) ==
  IF b % 2 = 1 THEN FirstBoundary - 1 + ((b - 1) \div 2) * DaySeconds
  ELSE FirstBoundary + ((b - 2) \div 2) * DaySeconds

\* the k-th transaction of the contract, mined in block b
ChainTx(k, b) ==
  [ hash |-> <<"0", "x">> \o DecString(k),
    blockNumber |-> DecString(b),
    timeStamp |-> DecString(BlockTime(b)),
    from |-> CASE k % 3 = 1 -> OriginAddress
               [] k % 3 = 2 -> <<"0", "x", "a">>
               [] OTHER -> OtherAddress,
    to |-> <<"0", "x", "c">>,
    value |-> DecString(k % 2),
    gasUsed |-> DecString(20 + k),
    gasPrice |-> DecString(k) ]

Transfer(f, t, v) == [from |-> f, to |-> t, value |-> v]

\* the internal transfers the ledger holds for the k-th transaction
InternalOfTx(k) ==
  CASE k % 3 = 1 ->
         << Transfer(<<"0", "x", "C">>, <<"0", "x", "a">>, DecString(40 + k)),
            Transfer(<<"0", "x", "c">>, <<"0", "x", "b">>, <<"5">>),
            Transfer(OtherAddress, <<"0", "x", "a">>, <<"9">>) >>
    [] k % 3 = 2 ->
         << Transfer(<<"0", "x", "c">>, <<"0", "x", "A">>, <<"3", "0">>) >>
    [] OTHER -> << >>

InternalOf(hash) == InternalOfTx(BigInt(SubSeq(hash, 3, Len(hash))))

\* Date.now() / 1000 at a moment when the latest block is `head`
currentTimestamp == BlockTime(head)

(***************************************************************************)
(* The Etherscan endpoints, as functions of the ledger.                    *)
(***************************************************************************)
\* getblocknobytime, closest = "after": 0 when the ledger has no such block
BlockAfter(ts) ==
  LET S == {b \in 1..head : BlockTime(b) >= ts}
  IN IF S = {} THEN 0 ELSE CHOOSE b \in S : \A c \in S : b <= c

\* getblocknobytime, closest = "before"
BlockBefore(ts) ==
  LET S == {b \in 1..head : BlockTime(b) <= ts}
  IN IF S = {} THEN 0 ELSE CHOOSE b \in S : \A c \in S : b >= c

\* every transaction of the address in the inclusive block range, ascending
TxInRange(address, sb, eb) ==
  SelectSeq(chain, LAMBDA tx :
    /\ toLowerCase(tx.to) = toLowerCase(address)
    /\ parseInt(tx.blockNumber) >= sb
    /\ parseInt(tx.blockNumber) <= eb
    /\ parseInt(tx.blockNumber) <= head)

\* txlist with page 1, offset MaxRows, sort asc: the first page only
TxListPage(address, sb, eb) ==
  LET all == TxInRange(address, sb, eb)
  IN SubSeq(all, 1, IF Len(all) < MaxRows THEN Len(all) ELSE MaxRows)

(***************************************************************************)
(* EtherscanAPI methods: what each returns for an outcome of its HTTP      *)
(* call.  "ok" is a response with status "1", "notok" a response with any  *)
(* other status, "throw" a rejected request.                               *)
(***************************************************************************)
Outcomes == {"ok", "notok", "throw"}

\* getContractTransactions: rethrows a rejected request
getContractTransactions(outcome, address, sb, eb) ==
  CASE outcome = "ok" -> [threw |-> FALSE, value |-> TxListPage(address, sb, eb)]
    [] outcome = "notok" -> [threw |-> FALSE, value |-> << >>]
    [] OTHER -> [threw |-> TRUE, value |-> << >>]

\* variant: the result of a response returned whatever its status
getInternalTransactions_unchecked(outcome, upstream) ==
  CASE outcome = "ok" -> upstream
    [] outcome = "notok" -> upstream
    [] OTHER -> << >>

\* getInternalTransactions: warns and returns [] on a rejected request
getInternalTransactions(outcome, upstream) ==
  CASE outcome = "ok" -> upstream
    [] outcome = "notok" -> << >>
    [] OTHER -> << >>

(***************************************************************************)
(* ContractAnalyzer.analyzeTransaction, after its lookup has returned      *)
(* internalTxs.  The fields timestamp (an ISO rendering of timeStamp) and  *)
(* type are carried to the report only and are left out.                   *)
(***************************************************************************)
RECURSIVE SumValues(_)
SumValues(itxs) ==
  IF itxs = << >> THEN 0
  ELSE SumValues(SubSeq(itxs, 1, Len(itxs) - 1)) + BigInt(itxs[Len(itxs)].value)

\* variant: the recipient compared without lowercasing it
contractToWalletTxs_caseSensitive(internalTxs, cAddr, wAddr) ==
  SelectSeq(internalTxs, LAMBDA itx :
    toLowerCase(itx.from) = cAddr /\ itx.to = wAddr)

contractToWalletTxs(internalTxs, cAddr, wAddr) ==
  SelectSeq(internalTxs, LAMBDA itx :
    toLowerCase(itx.from) = cAddr /\ toLowerCase(itx.to) = wAddr)

\* variant: the originator filter without the main-wallet exclusion
contractToOriginTxs_anyOrigin(tx, internalTxs, cAddr, wAddr) ==
  SelectSeq(internalTxs, LAMBDA itx :
    /\ toLowerCase(itx.from) = cAddr
    /\ toLowerCase(itx.to) = toLowerCase(tx.from))

contractToOriginTxs(tx, internalTxs, cAddr, wAddr) ==
  SelectSeq(internalTxs, LAMBDA itx :
    /\ toLowerCase(itx.from) = cAddr
    /\ toLowerCase(itx.to) = toLowerCase(tx.from)
    /\ toLowerCase(itx.to) # wAddr)

\* variant: a profit floored at zero
NetProfit_floored(totalInternalValue, gasFee) ==
  IF totalInternalValue - gasFee < 0 THEN 0 ELSE totalInternalValue - gasFee

NetProfit(totalInternalValue, gasFee) == totalInternalValue - gasFee

analyzeTransaction(tx, internalTxs, cAddr, wAddr) ==
  LET gasFee == BigInt(tx.gasUsed) * BigInt(tx.gasPrice)
      contractToWalletValue ==
        SumValues(contractToWalletTxs(internalTxs, cAddr, wAddr))
      contractToOriginValue ==
        SumValues(contractToOriginTxs(tx, internalTxs, cAddr, wAddr))
      totalInternalValue == contractToWalletValue + contractToOriginValue
  IN [ hash |-> tx.hash,
       blockNumber |-> tx.blockNumber,
       gasFee |-> gasFee,
       contractToWalletValue |-> contractToWalletValue,
       contractToOriginValue |-> contractToOriginValue,
       totalInternalValue |-> totalInternalValue,
       netProfit |-> NetProfit(totalInternalValue, gasFee),
       from |-> tx.from ]

(***************************************************************************)
(* analyzeDailyTransactions: the daily filter and the aggregation.         *)
(***************************************************************************)
\* variant: a window closed at its end
InDay_closedEnd(tx, startTs, endTs) ==
  parseInt(tx.timeStamp) >= startTs /\ parseInt(tx.timeStamp) <= endTs

InDay(tx, startTs, endTs) ==
  parseInt(tx.timeStamp) >= startTs /\ parseInt(tx.timeStamp) < endTs

dayFilter(txs, startTs, endTs) ==
  SelectSeq(txs, LAMBDA tx : InDay(tx, startTs, endTs))

\* Array.prototype.reduce((sum, x) => sum + x, 0n) over a list of integers
RECURSIVE reduceSum(_)
reduceSum(xs) ==
  IF xs = << >> THEN 0
  ELSE reduceSum(SubSeq(xs, 1, Len(xs) - 1)) + xs[Len(xs)]

\* variant: totalProfit reduced over gasFee
DailyAnalysis_profitFromGas(d, analyzed) ==
  [ date |-> d,
    transactions |-> analyzed,
    totalProfit |-> reduceSum([k \in 1..Len(analyzed) |-> analyzed[k].gasFee]),
    totalTransactions |-> Len(analyzed),
    totalGasFees |-> reduceSum([k \in 1..Len(analyzed) |-> analyzed[k].gasFee]),
    totalInternalValue |->
      reduceSum([k \in 1..Len(analyzed) |-> analyzed[k].totalInternalValue]) ]

DailyAnalysis(d, analyzed) ==
  [ date |-> d,
    transactions |-> analyzed,
    totalProfit |-> reduceSum([k \in 1..Len(analyzed) |-> analyzed[k].netProfit]),
    totalTransactions |-> Len(analyzed),
    totalGasFees |-> reduceSum([k \in 1..Len(analyzed) |-> analyzed[k].gasFee]),
    totalInternalValue |->
      reduceSum([k \in 1..Len(analyzed) |-> analyzed[k].totalInternalValue]) ]

\* variant: the resolved end block is used as it is
ClampEnd_unclamped(eb, latest) == eb

\* lines 80-85: the end block never exceeds the latest block
ClampEnd(eb, latest) == IF eb > latest THEN latest ELSE eb

\* variant: an end at the current instant counts as future too
endIsFuture_orNow(endTs, now) == endTs >= now

\* line 75: endTimestamp > currentTimestamp
endIsFuture(endTs, now) == endTs > now

\* variant: the catch block logs the error and main returns normally
catchAndExit_swallowed == <<0>>

\* main.ts 167-170: the catch block of main ends the process with code 1
catchAndExit == <<1>>

\* variant: a failed price request is rethrown like the listing's
getEthPrice_rethrown(outcome) ==
  [threw |-> outcome = "throw", value |-> IF outcome = "ok" THEN EthUsd ELSE 0]

\* part_004 199-218: result.ethusd of a status "1" response, 0 for another
\* status or a rejected request
getEthPrice(outcome) ==
  [threw |-> FALSE, value |-> IF outcome = "ok" THEN EthUsd ELSE 0]

\* variant: every lookup of the day started at once
internalCalls_allAtOnce(dayTxs, i) ==
  IF i = 1 THEN [k \in 1..Len(dayTxs) |-> "getInternalTransactions"]
  ELSE << >>

\* lines 111-122: iteration i awaits its own getInternalTransactions call
internalCalls(dayTxs, i) ==
  IF i <= Len(dayTxs) THEN <<"getInternalTransactions">> ELSE << >>

\* variant: an empty day sends the run back to the start lookup
afterFetch_reresolve(kept) ==
  IF kept = << >> THEN "getStartBlock" ELSE "analyzeTransaction"

\* lines 111-124: the loop body runs only when a record was retained
afterFetch(kept) == IF kept = << >> THEN "done" ELSE "analyzeTransaction"

\* variant: unshift instead of push
push_front(list, item) == <<item>> \o list

\* line 121: analyzedTransactions.push(profit)
push(list, item) == Append(list, item)

(***************************************************************************)
(* Initial states.                                                         *)
(***************************************************************************)
\* the constructor lowercases both configured addresses (analyzer.ts 41-42)
InitConfig ==
  /\ contractAddress = toLowerCase(RawContractAddress)
  /\ \E w \in RawWalletAddresses : mainWalletAddress = toLowerCase(w)

\* no analyzer is constructed by the scripts that run the batching loops
IdleConfig ==
  /\ contractAddress = << >>
  /\ mainWalletAddress = << >>

IdlePipe ==
  /\ date = << >>
  /\ chain = << >>
  /\ head = 1
  /\ pc = "idle"
  /\ startTimestamp = 0
  /\ endTimestamp = 0
  /\ latestBlock = 0
  /\ startBlock = 0
  /\ endBlock = 0
  /\ transactions = << >>
  /\ dayTransactions = << >>
  /\ analyzedTransactions = << >>
  /\ analysis = NoAnalysis
  /\ fetchOutcome = "none"
  /\ lookupFailed = {}
  /\ entry = "none"
  /\ calls = << >>
  /\ clockRead = 0
  /\ resolvedEnd = 0
  /\ exitCode = << >>
  /\ outstanding = 0
  /\ report = NoReport

IdleProfit ==
  /\ ptx = NoProfit
  /\ pinternal = << >>
  /\ ppc = "idle"
  /\ poutcome = "none"
  /\ pprofit = NoProfit

NoStep ==
  [ first |-> "none", retry |-> "none", attempts |-> 0, slept |-> 0,
    returned |-> [isText |-> FALSE, items |-> << >>], finished |-> FALSE ]

IdleBatch ==
  /\ bkind = "none"
  /\ bfrom = 0
  /\ bto = 0
  /\ brecords = {}
  /\ bstep = <<1, 1>>
  /\ brun = 1
  /\ bpc = "idle"
  /\ bcursor = 0
  /\ bresult = << << >>, << >> >>
  /\ bwindows = << << >>, << >> >>
  /\ blast = NoStep
  /\ bfaulted = FALSE

IdleFan ==
  /\ fkind = "none"
  /\ fhashes = << >>
  /\ fnext = 1
  /\ finflight = {}
  /\ fdone = {}
  /\ foutcome = << >>
  /\ fresults = << >>
  /\ ferrors = {}
  /\ fpc = "idle"
  /\ ffile = << >>
  /\ foutOfOrder = FALSE

\* the contract's transactions: up to MaxTx of them, in ascending blocks
Chains ==
  UNION { { [k \in 1..n |-> ChainTx(k, blk[k])] :
              blk \in { f \in [1..n -> 1..NumBlocks] :
                          \A j \in 1..(n - 1) : f[j] <= f[j + 1] } } :
          n \in 0..MaxTx }

Init ==
  /\ InitConfig
  /\ date \in Dates
  /\ chain \in Chains
  /\ head \in 1..NumBlocks
  /\ pc = "getLatestBlock"
  /\ startTimestamp = 0
  /\ endTimestamp = 0
  /\ latestBlock = 0
  /\ startBlock = 0
  /\ endBlock = 0
  /\ transactions = << >>
  /\ dayTransactions = << >>
  /\ analyzedTransactions = << >>
  /\ analysis = NoAnalysis
  /\ fetchOutcome = "none"
  /\ lookupFailed = {}
  /\ entry = "main"
  /\ calls = <<"getLatestBlock">>
  /\ clockRead = 0
  /\ resolvedEnd = 0
  /\ exitCode = << >>
  /\ outstanding = 1
  /\ report = NoReport
  /\ IdleProfit
  /\ IdleBatch
  /\ IdleFan

(***************************************************************************)
(* analyzeDailyTransactions, one action per awaited call.  A thrown error  *)
(* leaves the method; main catches it and exits with code 1 ("failed").    *)
(***************************************************************************)
\* the ledger grows while the analysis runs
MineBlock ==
  /\ pc \in {"getLatestBlock", "getStartBlock", "getEndBlock",
             "getContractTransactions", "analyzeTransaction"}
  /\ head < NumBlocks
  /\ head' = head + 1
  /\ UNCHANGED <<chain, configVars, pipeVars, runVars, nonPipeVars>>

\* lines 51-66: the window of the date, then getLatestBlock
GetLatestBlock ==
  /\ pc = "getLatestBlock"
  /\ \/ /\ pc' = "getStartBlock"
        /\ startTimestamp' = StartTimestampOf(date)
        /\ endTimestamp' = EndTimestampOf(date)
        /\ latestBlock' = head
        /\ calls' = Append(calls, "getBlockByTimestamp(after)")
        /\ UNCHANGED exitCode
     \/ /\ pc' = "failed"
        /\ startTimestamp' = StartTimestampOf(date)
        /\ endTimestamp' = EndTimestampOf(date)
        /\ exitCode' = catchAndExit
        /\ UNCHANGED <<latestBlock, calls>>
  /\ outstanding' = outstanding - 1 + (Len(calls') - Len(calls))
  /\ UNCHANGED <<entry, clockRead, resolvedEnd, report>>
  /\ UNCHANGED <<startBlock, endBlock, transactions, dayTransactions,
                 analyzedTransactions, analysis, fetchOutcome, lookupFailed>>
  /\ UNCHANGED <<configVars, ledgerVars, nonPipeVars>>

\* lines 67-87: getBlockByTimestamp(startTimestamp, "after"); a future end
\* takes the latest block without a second lookup
GetStartBlock ==
  /\ pc = "getStartBlock"
  /\ \/ /\ BlockAfter(startTimestamp) # 0
        /\ startBlock' = BlockAfter(startTimestamp)
        /\ clockRead' = currentTimestamp
        /\ IF endIsFuture(endTimestamp, currentTimestamp)
           THEN /\ resolvedEnd' = latestBlock
                /\ endBlock' = ClampEnd(latestBlock, latestBlock)
                /\ calls' = Append(calls, "getContractTransactions")
                /\ pc' = "getContractTransactions"
           ELSE /\ UNCHANGED <<endBlock, resolvedEnd>>
                /\ calls' = Append(calls, "getBlockByTimestamp(before)")
                /\ pc' = "getEndBlock"
        /\ UNCHANGED exitCode
     \/ /\ pc' = "failed"
        /\ exitCode' = catchAndExit
        /\ UNCHANGED <<startBlock, endBlock, calls, clockRead, resolvedEnd>>
  /\ outstanding' = outstanding - 1 + (Len(calls') - Len(calls))
  /\ UNCHANGED <<entry, report>>
  /\ UNCHANGED <<startTimestamp, endTimestamp, latestBlock, transactions,
                 dayTransactions, analyzedTransactions, analysis,
                 fetchOutcome, lookupFailed>>
  /\ UNCHANGED <<configVars, ledgerVars, nonPipeVars>>

\* lines 77-87: getBlockByTimestamp(endTimestamp, "before") and the clamp
GetEndBlock ==
  /\ pc = "getEndBlock"
  /\ \/ /\ BlockBefore(endTimestamp) # 0
        /\ resolvedEnd' = BlockBefore(endTimestamp)
        /\ endBlock' = ClampEnd(BlockBefore(endTimestamp), latestBlock)
        /\ calls' = Append(calls, "getContractTransactions")
        /\ pc' = "getContractTransactions"
        /\ UNCHANGED exitCode
     \/ /\ pc' = "failed"
        /\ exitCode' = catchAndExit
        /\ UNCHANGED <<endBlock, calls, resolvedEnd>>
  /\ outstanding' = outstanding - 1 + (Len(calls') - Len(calls))
  /\ UNCHANGED <<entry, clockRead, report>>
  /\ UNCHANGED <<startTimestamp, endTimestamp, latestBlock, startBlock,
                 transactions, dayTransactions, analyzedTransactions, analysis,
                 fetchOutcome, lookupFailed>>
  /\ UNCHANGED <<configVars, ledgerVars, nonPipeVars>>

\* lines 89-122: the single txlist call, the daily filter, and, when nothing
\* is retained, lines 124-145 as well
FetchTransactions ==
  /\ pc = "getContractTransactions"
  /\ \E outcome \in Outcomes :
       LET r == getContractTransactions(outcome, contractAddress,
                                        startBlock, endBlock)
           kept == dayFilter(r.value, startTimestamp, endTimestamp)
       IN /\ fetchOutcome' = outcome
          /\ IF r.threw
             THEN /\ pc' = "failed"
                  /\ exitCode' = catchAndExit
                  /\ UNCHANGED <<transactions, dayTransactions, analysis,
                                 calls>>
             ELSE /\ transactions' = r.value
                  /\ dayTransactions' = kept
                  /\ UNCHANGED exitCode
                  /\ pc' = afterFetch(kept)
                  /\ IF kept = << >>
                     THEN /\ analysis' = DailyAnalysis(date, << >>)
                          /\ calls' = Append(calls, "getEthPrice")
                     ELSE /\ UNCHANGED analysis
                          /\ calls' = calls \o internalCalls(kept, 1)
  /\ outstanding' = outstanding - 1 + (Len(calls') - Len(calls))
  /\ UNCHANGED <<entry, clockRead, resolvedEnd, report>>
  /\ UNCHANGED <<startTimestamp, endTimestamp, latestBlock, startBlock,
                 endBlock, analyzedTransactions, lookupFailed>>
  /\ UNCHANGED <<configVars, ledgerVars, nonPipeVars>>

\* lines 111-146: one iteration of the loop, i.e. one getInternalTransactions
\* call and the push; the last iteration runs on into the aggregation
AnalyzeNext ==
  /\ pc = "analyzeTransaction"
  /\ \E outcome \in Outcomes :
       LET i == Len(analyzedTransactions) + 1
           tx == dayTransactions[i]
           internalTxs == getInternalTransactions(outcome, InternalOf(tx.hash))
           profit == analyzeTransaction(tx, internalTxs, contractAddress,
                                        mainWalletAddress)
           analyzed == push(analyzedTransactions, profit)
       IN /\ analyzedTransactions' = analyzed
          /\ lookupFailed' =
               IF outcome = "ok" THEN lookupFailed ELSE lookupFailed \cup {i}
          /\ IF i = Len(dayTransactions)
             THEN /\ analysis' = DailyAnalysis(date, analyzed)
                  /\ pc' = "done"
                  /\ calls' = Append(calls, "getEthPrice")
             ELSE /\ UNCHANGED analysis
                  /\ calls' = calls \o internalCalls(dayTransactions, i + 1)
                  /\ pc' = "analyzeTransaction"
  /\ outstanding' = outstanding - 1 + (Len(calls') - Len(calls))
  /\ UNCHANGED <<entry, clockRead, resolvedEnd, exitCode, report>>
  /\ UNCHANGED <<startTimestamp, endTimestamp, latestBlock, startBlock,
                 endBlock, transactions, dayTransactions, fetchOutcome>>
  /\ UNCHANGED <<configVars, ledgerVars, nonPipeVars>>

\* main.ts 86-165: getEthPrice, then the report is printed and main returns
GetEthPrice ==
  /\ pc = "done"
  /\ \E outcome \in Outcomes :
       LET r == getEthPrice(outcome)
       IN IF r.threw
          THEN /\ pc' = "failed"
               /\ exitCode' = catchAndExit
               /\ UNCHANGED report
          ELSE /\ pc' = "reported"
               /\ report' = [ outcome |-> outcome, ethPrice |-> r.value,
                              analysis |-> analysis ]
               /\ UNCHANGED exitCode
  /\ outstanding' = outstanding - 1
  /\ UNCHANGED <<entry, calls, clockRead, resolvedEnd>>
  /\ UNCHANGED <<startTimestamp, endTimestamp, latestBlock, startBlock,
                 endBlock, transactions, dayTransactions, analyzedTransactions,
                 analysis, fetchOutcome, lookupFailed>>
  /\ UNCHANGED <<configVars, ledgerVars, nonPipeVars>>

Next ==
  \/ MineBlock
  \/ GetLatestBlock
  \/ GetStartBlock
  \/ GetEndBlock
  \/ FetchTransactions
  \/ AnalyzeNext
  \/ GetEthPrice

Spec == Init /\ [][Next]_vars

(***************************************************************************)
(* analyzeTransaction on its own: any transaction, any list of internal    *)
(* transfers held by the upstream, any outcome of the lookup.              *)
(***************************************************************************)
ProfitTransfers ==
  { Transfer(f, t, v) :
      f \in {<<"0", "x", "C">>, OtherAddress},
      t \in {<<"0", "x", "a">>, <<"0", "x", "A">>, OriginAddress, OtherAddress},
      v \in {<<"3">>, <<"1", "0", "0">>} }

ProfitTransferLists == UNION { [1..n -> ProfitTransfers] : n \in 0..MaxTransfers }

ProfitTxs ==
  { [ hash |-> <<"0", "x", "1">>,
      blockNumber |-> <<"2">>,
      timeStamp |-> DecString(BlockTime(2)),
      from |-> f,
      to |-> <<"0", "x", "c">>,
      value |-> <<"0">>,
      gasUsed |-> g,
      gasPrice |-> <<"5">> ] :
      f \in {<<"0", "x", "b">>, <<"0", "x", "A">>, OtherAddress},
      g \in {<<"0">>, <<"2", "1">>} }

InitProfit ==
  /\ InitConfig
  /\ IdlePipe
  /\ IdleBatch
  /\ IdleFan
  /\ ptx \in ProfitTxs
  /\ pinternal \in ProfitTransferLists
  /\ ppc = "getInternalTransactions"
  /\ poutcome = "none"
  /\ pprofit = NoProfit

\* lines 154-209 with the outcome of the lookup of line 161
AnalyzeOne ==
  /\ ppc = "getInternalTransactions"
  /\ \E outcome \in Outcomes :
       /\ pprofit' = analyzeTransaction(
                       ptx, getInternalTransactions(outcome, pinternal),
                       contractAddress, mainWalletAddress)
       /\ poutcome' = outcome
       /\ ppc' = "returned"
  /\ UNCHANGED <<ptx, pinternal, configVars, nonProfitVars>>

NextProfit == AnalyzeOne

SpecProfit == InitProfit /\ [][NextProfit]_vars

(***************************************************************************)
(* The daily filter on its own (lines 98-102): any fetched list, any date. *)
(***************************************************************************)
InitFilter ==
  /\ InitConfig
  /\ IdleProfit
  /\ IdleBatch
  /\ IdleFan
  /\ date \in Dates
  /\ chain = << >>
  /\ head = NumBlocks
  /\ pc = "filter"
  /\ startTimestamp = 0
  /\ endTimestamp = 0
  /\ latestBlock = 0
  /\ startBlock = 0
  /\ endBlock = 0
  /\ transactions \in Chains
  /\ dayTransactions = << >>
  /\ analyzedTransactions = << >>
  /\ analysis = NoAnalysis
  /\ fetchOutcome = "ok"
  /\ lookupFailed = {}
  /\ entry = "none"
  /\ calls = << >>
  /\ clockRead = 0
  /\ resolvedEnd = 0
  /\ exitCode = << >>
  /\ outstanding = 0
  /\ report = NoReport

ApplyFilter ==
  /\ pc = "filter"
  /\ pc' = "filtered"
  /\ startTimestamp' = StartTimestampOf(date)
  /\ endTimestamp' = EndTimestampOf(date)
  /\ dayTransactions' = dayFilter(transactions, startTimestamp', endTimestamp')
  /\ UNCHANGED <<latestBlock, startBlock, endBlock, transactions,
                 analyzedTransactions, analysis, fetchOutcome, lookupFailed>>
  /\ UNCHANGED <<configVars, ledgerVars, runVars, nonPipeVars>>

NextFilter == ApplyFilter

SpecFilter == InitFilter /\ [][NextFilter]_vars

(***************************************************************************)
(* The batching loops.                                                     *)
(*   "events": EtherscanAPI.getEventLogsByAddress, each window fetched by  *)
(*             getEventLogsByAddressAndTopic (one retry after a sleep);    *)
(*   "txs":    the transaction extraction script, each window fetched by   *)
(*             getContractTransactions;                                    *)
(*   "logs":   the log extraction script, each window fetched by           *)
(*             Ethereum.getLogsByAddressAndTopic.                          *)
(* The sources step by 1000 or 10000 blocks; the model takes the step from *)
(* 1..MaxStep.  The upstream holds one record for each block of brecords   *)
(* and answers a window with the records of its blocks, both ends          *)
(* included.                                                               *)
(***************************************************************************)
Kinds == {"events", "txs", "logs"}

\* the loop condition: `i <= to` in getEventLogsByAddress, `i < endBlock`
\* in the two scripts
LoopContinues(kind, i, to) == IF kind = "events" THEN i <= to ELSE i < to

\* variant: a window never cut at the end of the range
UpperBound_unclamped(i, W, to) == i + W

\* the upper bound of the window that starts at i
UpperBound(i, W, to) == IF to > i + W THEN i + W ELSE to

\* the records the upstream holds for the blocks lo..hi, ascending
RECURSIVE RecordsIn(_, _, _)
RecordsIn(held, lo, hi) ==
  IF lo > hi THEN << >>
  ELSE (IF lo \in held THEN <<[blockNumber |-> lo]>> ELSE << >>)
         \o RecordsIn(held, lo + 1, hi)

\* the `result` member of a response: a list of records when the status is
\* "1"; otherwise an empty list ("No records found") or a message text
ErrorText == <<"N", "O">>

ResultOf(outcome, held, lo, hi) ==
  CASE outcome = "ok" -> [isText |-> FALSE, items |-> RecordsIn(held, lo, hi)]
    [] outcome = "notok" -> [isText |-> FALSE, items |-> << >>]
    [] OTHER -> [isText |-> TRUE, items |-> ErrorText]

\* result.push(...events): a list is appended item by item, a string
\* character by character
Spread(result) ==
  IF result.isText
  THEN [k \in 1..Len(result.items) |-> [char |-> result.items[k]]]
  ELSE result.items

EmptyList == [isText |-> FALSE, items |-> << >>]

EventOutcomes == {"ok", "notok", "notokText", "throw"}

\* getEventLogsByAddressAndTopic, lines 229-262: the value returned for the
\* outcomes of the first request and, when there is one, of the second
getEventLogsByAddressAndTopic(first, retry, held, lo, hi) ==
  CASE first = "ok" -> ResultOf("ok", held, lo, hi)
    [] first = "throw" -> EmptyList
    [] retry = "throw" -> EmptyList
    [] OTHER -> ResultOf(retry, held, lo, hi)

\* whether the first outcome leads to the sleep and the second request
Retries(first) == first \in {"notok", "notokText"}

\* variant: each window's list is put in front of the earlier ones
pushAll_front(result, items) == items \o result

\* result.push(...events), result.push(...txs): appended at the end
pushAll(result, items) == result \o items

\* variant: the cursor moved by one block whatever the step
advance_byOne(i, W) == i + 1

\* `i += 1000`, `i += 10000`, `i += steps`
advance(i, W) == i + W

\* the state after a window's list has been pushed: `i += step`, then the
\* loop condition
AfterWindow(items, lo, hi) ==
  LET next == advance(bcursor, bstep[brun])
  IN /\ bresult' = [bresult EXCEPT ![brun] = pushAll(@, items)]
     /\ bwindows' = [bwindows EXCEPT ![brun] = Append(@, <<lo, hi>>)]
     /\ bcursor' = next
     /\ bpc' = IF LoopContinues(bkind, next, bto) THEN "loop" ELSE "done"

\* getEventLogsByAddress, lines 274-284: the first request of a window
EventsFirstAttempt(outs) ==
  /\ bkind = "events"
  /\ bpc = "loop"
  /\ \E first \in outs :
       LET lo == bcursor
           hi == UpperBound(bcursor, bstep[brun], bto)
       IN /\ bfaulted' = (bfaulted \/ first # "ok")
          /\ IF Retries(first)
             THEN /\ bpc' = "sleep"
                  /\ blast' = [first |-> first, retry |-> "none", attempts |-> 1,
                               slept |-> 0, returned |-> EmptyList,
                               finished |-> FALSE]
                  /\ UNCHANGED <<bresult, bwindows, bcursor>>
             ELSE LET r == getEventLogsByAddressAndTopic(first, "none",
                                                         brecords, lo, hi)
                  IN /\ blast' = [first |-> first, retry |-> "none",
                                  attempts |-> 1, slept |-> 0, returned |-> r,
                                  finished |-> TRUE]
                     /\ AfterWindow(Spread(r), lo, hi)
  /\ UNCHANGED <<bkind, bfrom, bto, brecords, bstep, brun, nonBatchVars>>

\* line 243: sleep(1000), after which the second request is sent
EventsSleep ==
  /\ bkind = "events"
  /\ bpc = "sleep"
  /\ bpc' = "retry"
  /\ blast' = [blast EXCEPT !.slept = @ + SleepMs]
  /\ UNCHANGED <<bkind, bfrom, bto, brecords, bstep, brun, bcursor, bresult,
                 bwindows, bfaulted, nonBatchVars>>

\* lines 244-255 and 258-261: the second request of a window
EventsRetry ==
  /\ bkind = "events"
  /\ bpc = "retry"
  /\ \E retry \in EventOutcomes :
       LET lo == bcursor
           hi == UpperBound(bcursor, bstep[brun], bto)
           r == getEventLogsByAddressAndTopic(blast.first, retry,
                                              brecords, lo, hi)
       IN /\ blast' = [blast EXCEPT !.retry = retry, !.attempts = @ + 1,
                                    !.returned = r, !.finished = TRUE]
          /\ AfterWindow(Spread(r), lo, hi)
  /\ UNCHANGED <<bkind, bfrom, bto, brecords, bstep, brun, bfaulted,
                 nonBatchVars>>

\* the transaction extraction loop: getContractTransactions returns the
\* rows of a status "1" response, [] for any other status, and rethrows a
\* rejected request, which ends the script before it writes its file
TxWindow(outs) ==
  /\ bkind = "txs"
  /\ bpc = "loop"
  /\ \E outcome \in outs :
       LET lo == bcursor
           hi == UpperBound(bcursor, bstep[brun], bto)
           list == IF outcome = "ok" THEN RecordsIn(brecords, lo, hi) ELSE << >>
       IN /\ bfaulted' = (bfaulted \/ outcome # "ok")
          /\ blast' = [first |-> outcome, retry |-> "none", attempts |-> 1,
                       slept |-> 0,
                       returned |-> [isText |-> FALSE, items |-> list],
                       finished |-> outcome # "throw"]
          /\ IF outcome = "throw"
             THEN /\ bpc' = "aborted"
                  /\ UNCHANGED <<bresult, bwindows, bcursor>>
             ELSE AfterWindow(list, lo, hi)
  /\ UNCHANGED <<bkind, bfrom, bto, brecords, bstep, brun, nonBatchVars>>

\* the log extraction loop: Ethereum.getLogsByAddressAndTopic returns the
\* logs, or [] when provider.getLogs rejects
LogWindow(outs) ==
  /\ bkind = "logs"
  /\ bpc = "loop"
  /\ \E outcome \in outs :
       LET lo == bcursor
           hi == UpperBound(bcursor, bstep[brun], bto)
           list == IF outcome = "ok" THEN RecordsIn(brecords, lo, hi) ELSE << >>
       IN /\ bfaulted' = (bfaulted \/ outcome # "ok")
          /\ blast' = [first |-> outcome, retry |-> "none", attempts |-> 1,
                       slept |-> 0,
                       returned |-> [isText |-> FALSE, items |-> list],
                       finished |-> TRUE]
          /\ AfterWindow(list, lo, hi)
  /\ UNCHANGED <<bkind, bfrom, bto, brecords, bstep, brun, nonBatchVars>>

\* the same fetch run again with the second step
StartRerun ==
  /\ bpc = "done"
  /\ brun = 1
  /\ brun' = 2
  /\ bcursor' = bfrom
  /\ bpc' = IF LoopContinues(bkind, bfrom, bto) THEN "loop" ELSE "done"
  /\ blast' = NoStep
  /\ UNCHANGED <<bkind, bfrom, bto, brecords, bstep, bresult, bwindows,
                 bfaulted, nonBatchVars>>

InitBatchWith(steps) ==
  /\ IdleConfig
  /\ IdlePipe
  /\ IdleProfit
  /\ IdleFan
  /\ bkind \in Kinds
  /\ bfrom \in 0..MaxRangeBlock
  /\ bto \in bfrom..MaxRangeBlock
  /\ brecords \in SUBSET (0..MaxRangeBlock)
  /\ bstep \in steps
  /\ brun = 1
  /\ bpc = IF LoopContinues(bkind, bfrom, bto) THEN "loop" ELSE "done"
  /\ bcursor = bfrom
  /\ bresult = << << >>, << >> >>
  /\ bwindows = << << >>, << >> >>
  /\ blast = NoStep
  /\ bfaulted = FALSE

\* one run of a loop, every call free to fail
InitBatch == InitBatchWith({<<w, w>> : w \in 1..MaxStep})

NextBatch ==
  \/ EventsFirstAttempt(EventOutcomes)
  \/ EventsSleep
  \/ EventsRetry
  \/ TxWindow({"ok", "notok", "throw"})
  \/ LogWindow({"ok", "throw"})

SpecBatch == InitBatch /\ [][NextBatch]_vars

\* two runs over the same range with two steps, against an upstream that
\* answers every window with exactly its records
InitRerun == InitBatchWith((1..MaxStep) \X (1..MaxStep))

NextRerun ==
  \/ EventsFirstAttempt({"ok"})
  \/ TxWindow({"ok"})
  \/ LogWindow({"ok"})
  \/ StartRerun

SpecRerun == InitRerun /\ [][NextRerun]_vars

(***************************************************************************)
(* Runs in which every external call eventually returns or fails: one run  *)
(* of the report pipeline, or one run of a batching loop.  The program is  *)
(* sequential, so the step that follows the return of the pending call is  *)
(* the only program step enabled; the chain growing is not a program step  *)
(* and gets no fairness.                                                   *)
(*                                                                         *)
(* CallReturns is enabled exactly when a call of the pipeline is pending   *)
(* (AwaitingCall): every await has a rejecting outcome at least.  Its weak *)
(* fairness WF_vars(CallReturns) is written out by its definition,         *)
(*   []<>(~ENABLED <<CallReturns>>_vars) \/ []<><<CallReturns>>_vars,       *)
(* with AwaitingCall in place of the enabling condition.                   *)
(***************************************************************************)
CallReturns ==
  \/ GetLatestBlock
  \/ GetStartBlock
  \/ GetEndBlock
  \/ FetchTransactions
  \/ AnalyzeNext
  \/ GetEthPrice

InitLive == Init \/ InitBatch

NextLive ==
  \/ Next
  \/ NextBatch

AwaitingCall ==
  pc \in {"getLatestBlock", "getStartBlock", "getEndBlock",
          "getContractTransactions", "analyzeTransaction", "done"}

CallsSettle == []<>(~AwaitingCall) \/ []<><<CallReturns>>_vars

SpecLive ==
  InitLive /\ [][NextLive]_vars /\ CallsSettle /\ WF_vars(NextBatch)

(***************************************************************************)
(* Properties.                                                             *)
(***************************************************************************)
\* two addresses that differ at most by letter case
SameAddress(a, b) == toLowerCase(a) = toLowerCase(b)

\* the sum of the values of the transfers of a list at the positions in S
RECURSIVE SumAt(_, _)
SumAt(list, S) ==
  IF S = {} THEN 0
  ELSE LET k == CHOOSE j \in S : TRUE
       IN BigInt(list[k].value) + SumAt(list, S \ {k})

WalletPositions(list) ==
  { k \in 1..Len(list) :
      /\ SameAddress(list[k].from, contractAddress)
      /\ SameAddress(list[k].to, mainWalletAddress) }

OriginPositions(tx, list) ==
  { k \in 1..Len(list) :
      /\ SameAddress(list[k].from, contractAddress)
      /\ SameAddress(list[k].to, tx.from)
      /\ ~SameAddress(list[k].to, mainWalletAddress) }

\* the sum of a field over the entries of a list of TransactionProfit
RECURSIVE SumField(_, _, _)
SumField(list, S, field) ==
  IF S = {} THEN 0
  ELSE LET k == CHOOSE j \in S : TRUE
       IN list[k][field] + SumField(list, S \ {k}, field)

\* the list analyzeTransaction worked on in SpecProfit
ReturnedTransfers == IF poutcome = "ok" THEN pinternal ELSE << >>

\* C1: every TransactionProfit returned by analyzeTransaction has
\* gasFee = gasUsed * gasPrice of the raw transaction and
\* netProfit = totalInternalValue - gasFee, negative whenever the gas fee
\* exceeds the internal value (no floor at zero).
C1_NetProfitExact ==
  ppc = "returned" =>
    /\ pprofit.gasFee = BigInt(ptx.gasUsed) * BigInt(ptx.gasPrice)
    /\ pprofit.netProfit = pprofit.totalInternalValue - pprofit.gasFee
    /\ pprofit.gasFee > pprofit.totalInternalValue => pprofit.netProfit < 0

C1_Witness ==
  /\ ppc = "returned"
  /\ pprofit.totalInternalValue > 0
  /\ pprofit.gasFee > pprofit.totalInternalValue
  /\ pprofit.netProfit < 0

\* C4: contractToWalletValue is the sum of the transfers from the contract
\* to the main wallet, contractToOriginValue the sum of those from the
\* contract to the transaction's sender when that is not the main wallet,
\* totalInternalValue their sum; addresses compare case-insensitively and
\* any other transfer contributes nothing.
C4_Partition ==
  ppc = "returned" =>
    /\ pprofit.contractToWalletValue =
         SumAt(ReturnedTransfers, WalletPositions(ReturnedTransfers))
    /\ pprofit.contractToOriginValue =
         SumAt(ReturnedTransfers, OriginPositions(ptx, ReturnedTransfers))
    /\ pprofit.totalInternalValue =
         pprofit.contractToWalletValue + pprofit.contractToOriginValue

\* a transfer counted for the wallet under a different letter case, one
\* counted for the origin, and one counted for neither
C4_Witness ==
  /\ ppc = "returned"
  /\ poutcome = "ok"
  /\ pprofit.contractToWalletValue > 0
  /\ \E k \in WalletPositions(pinternal) :
       pinternal[k].to # mainWalletAddress /\ pinternal[k].from # contractAddress
  /\ \/ pprofit.contractToOriginValue > 0
     \/ \E k \in 1..Len(pinternal) :
          k \notin WalletPositions(pinternal) \cup OriginPositions(ptx, pinternal)

\* C2: the totals of a DailyAnalysis are the exact sums of netProfit, gasFee
\* and totalInternalValue over its transactions, totalTransactions is their
\* number, and a run that retains nothing returns with all four at 0.
C2_Totals ==
  /\ pc \in {"done", "reported"} =>
       LET t == analysis.transactions
       IN /\ analysis.totalProfit = SumField(t, 1..Len(t), "netProfit")
          /\ analysis.totalGasFees = SumField(t, 1..Len(t), "gasFee")
          /\ analysis.totalInternalValue =
               SumField(t, 1..Len(t), "totalInternalValue")
          /\ analysis.totalTransactions = Len(t)
  /\ (fetchOutcome \in {"ok", "notok"} /\ dayTransactions = << >>) =>
       /\ pc \in {"done", "reported"}
       /\ analysis.totalTransactions = 0
       /\ analysis.totalProfit = 0
       /\ analysis.totalGasFees = 0
       /\ analysis.totalInternalValue = 0

C2_Witness ==
  /\ pc = "done"
  /\ Len(analysis.transactions) >= 2
  /\ analysis.totalInternalValue > 0
  /\ analysis.totalProfit # analysis.transactions[1].netProfit

\* C3: the daily filter keeps a fetched record exactly when
\* startTimestamp <= timeStamp < startTimestamp + 86400; for 2025-09-10 the
\* window is [1757512800, 1757599200).
C3_HalfOpenWindow ==
  pc = "filtered" =>
    /\ endTimestamp = startTimestamp + 86400
    /\ date = <<"2", "0", "2", "5", "-", "0", "9", "-", "1", "0">> =>
         startTimestamp = 1757512800 /\ endTimestamp = 1757599200
    /\ \A k \in 1..Len(transactions) :
         LET ts == parseInt(transactions[k].timeStamp)
             kept == \E j \in 1..Len(dayTransactions) :
                       dayTransactions[j] = transactions[k]
         IN /\ kept <=> (startTimestamp <= ts /\ ts < endTimestamp)
            /\ ts = startTimestamp => kept
            /\ ts = startTimestamp - 1 => ~kept
            /\ ts = endTimestamp => ~kept

\* records at startTimestamp - 1, at startTimestamp and at endTimestamp
C3_Witness ==
  /\ pc = "filtered"
  /\ Len(dayTransactions) = 1
  /\ \E a, b, c \in 1..Len(transactions) :
       /\ parseInt(transactions[a].timeStamp) = startTimestamp - 1
       /\ parseInt(transactions[b].timeStamp) = startTimestamp
       /\ parseInt(transactions[c].timeStamp) = endTimestamp

\* what analyzeTransaction owes for a transaction given its own transfers
ExpectedProfit(tx, list) ==
  [ wallet |-> SumAt(list, WalletPositions(list)),
    origin |-> SumAt(list, OriginPositions(tx, list)) ]

\* C5: a failed internal-transfer lookup for one transaction does not stop
\* the run; that transaction gets zero internal values and netProfit =
\* -gasFee, and every other transaction gets what its own transfers give.
C5_FaultIsolation ==
  /\ lookupFailed # {} => pc \in {"analyzeTransaction", "done", "reported"}
  /\ pc \in {"done", "reported"} =>
       Len(analysis.transactions) = Len(dayTransactions)
  /\ \A k \in 1..Len(analyzedTransactions) :
       LET p == analyzedTransactions[k]
           tx == dayTransactions[k]
           e == ExpectedProfit(tx, InternalOf(tx.hash))
       IN IF k \in lookupFailed
          THEN /\ p.contractToWalletValue = 0
               /\ p.contractToOriginValue = 0
               /\ p.totalInternalValue = 0
               /\ p.netProfit = 0 - p.gasFee
          ELSE /\ p.contractToWalletValue = e.wallet
               /\ p.contractToOriginValue = e.origin
               /\ p.totalInternalValue = e.wallet + e.origin
               /\ p.netProfit = e.wallet + e.origin - p.gasFee

\* a finished run in which a lookup failed for a transaction that has
\* internal transfers and succeeded for another one that has some
C5_Witness ==
  /\ pc = "done"
  /\ \E x \in lookupFailed : InternalOf(dayTransactions[x].hash) # << >>
  /\ \E k \in 1..Len(analyzedTransactions) :
       k \notin lookupFailed /\ analyzedTransactions[k].totalInternalValue > 0

\* C10: the records handed to the daily filter are all transactions of the
\* address in [startBlock, endBlock].
C10_AllTransactionsFetched ==
  (fetchOutcome = "ok" /\ pc \in {"analyzeTransaction", "done"}) =>
    transactions = TxInRange(contractAddress, startBlock, endBlock)

\* the items of a list, as a set
Items(list) == { list[k] : k \in 1..Len(list) }

\* the step completed last failed at its first request and, if it had a
\* second one, at that one too
StepFailed ==
  /\ blast.finished
  /\ blast.first # "ok"
  /\ blast.retry # "ok"

\* C6: a failed listing call for one window never aborts the run; the
\* failing step contributes an empty result and the loop goes on.
C6_ListingFailureNeverAborts ==
  /\ bpc # "aborted"
  /\ StepFailed => Spread(blast.returned) = << >>

\* C7: in getEventLogsByAddressAndTopic a failed first request, by status
\* or by a thrown error, is followed by exactly one second request after a
\* sleep of 1000 ms, never by a third; if the second fails as well the step
\* returns an empty list.
C7_ExactlyOneRetry ==
  (bkind = "events" /\ blast.finished) =>
    /\ blast.attempts <= 2
    /\ blast.first # "ok" => (blast.attempts = 2 /\ blast.slept = 1000)
    /\ StepFailed => blast.returned = EmptyList

\* C8: over the same range and the same upstream, two runs with any two
\* steps return the same set of records.
C8_SameSetAnyStep ==
  (brun = 2 /\ bpc = "done") => Items(bresult[1]) = Items(bresult[2])

C8_Witness ==
  /\ brun = 2
  /\ bpc = "done"
  /\ bstep[1] # bstep[2]
  /\ Len(bwindows[1]) > Len(bwindows[2])
  /\ Len(bwindows[2]) >= 1
  /\ Cardinality(Items(bresult[1])) >= 2

\* C9: over the same range and the same upstream, two runs with any two
\* steps return the same sequence of records: same order, same multiplicity.
C9_SameSequenceAnyStep ==
  (brun = 2 /\ bpc = "done") => bresult[1] = bresult[2]

(***************************************************************************)
(* Block-range resolution (analyzer.ts 65-94).                             *)
(***************************************************************************)
Issued(name) == \E k \in 1..Len(calls) : calls[k] = name

LastCall == calls[Len(calls)]

BlockLookups == {"getBlockByTimestamp(after)", "getBlockByTimestamp(before)"}

\* C11: whenever the resolution succeeds, the range handed to the
\* transaction fetch satisfies startBlock <= endBlock, for every date and
\* every chain head returned by the latest-block call.
C11_StartNotAfterEnd ==
  Issued("getContractTransactions") => startBlock <= endBlock

\* C12: the endBlock handed to the transaction fetch never exceeds the chain
\* head read in the same run; a resolved end block above latestBlock is
\* replaced by latestBlock, any other is left unchanged.
C12_EndClamped ==
  Issued("getContractTransactions") =>
    /\ endBlock <= latestBlock
    /\ resolvedEnd > latestBlock => endBlock = latestBlock
    /\ resolvedEnd <= latestBlock => endBlock = resolvedEnd

C12_Witness ==
  /\ Issued("getContractTransactions")
  /\ resolvedEnd > latestBlock
  /\ endBlock = latestBlock

\* C13: when endTimestamp is later than the wall clock read at line 73,
\* endBlock is the chain head read by the run and no "before" lookup is
\* issued; otherwise the "before" lookup is issued and endBlock is its
\* block, one at or before endTimestamp (cut to latestBlock by the clamp).
C13_FutureEndSkipsLookup ==
  /\ pc = "getEndBlock" =>
       /\ endTimestamp <= clockRead
       /\ LastCall = "getBlockByTimestamp(before)"
  /\ Issued("getContractTransactions") =>
       IF endTimestamp > clockRead
       THEN /\ endBlock = latestBlock
            /\ ~Issued("getBlockByTimestamp(before)")
       ELSE /\ Issued("getBlockByTimestamp(before)")
            /\ BlockTime(resolvedEnd) <= endTimestamp
            /\ endBlock = IF resolvedEnd > latestBlock THEN latestBlock
                                                      ELSE resolvedEnd

C13_Witness ==
  /\ Issued("getContractTransactions")
  /\ endTimestamp > clockRead
  /\ endBlock = latestBlock
  /\ head > latestBlock

\* C14: when a timestamp-to-block lookup (start or end) cannot return a
\* block, the run aborts: no transaction listing call and no
\* internal-transfer call is issued, no DailyAnalysis is produced and the
\* process ends with a non-zero exit code.
C14_LookupFailureAborts ==
  /\ (pc = "failed" /\ LastCall \in BlockLookups) =>
       /\ ~Issued("getContractTransactions")
       /\ ~Issued("getInternalTransactions")
       /\ analysis = NoAnalysis
       /\ exitCode # << >>
       /\ exitCode[1] # 0
  /\ exitCode # << >> => pc = "failed"

C14_Witness ==
  /\ pc = "failed"
  /\ LastCall = "getBlockByTimestamp(before)"
  /\ exitCode = <<1>>

(***************************************************************************)
(* The per-transaction list of a DailyAnalysis (analyzer.ts 98-122).       *)
(***************************************************************************)
\* position of the record with a given hash in the fetched batch
PositionOf(hash) ==
  CHOOSE k \in 1..Len(transactions) : transactions[k].hash = hash

Retained ==
  { k \in 1..Len(transactions) :
      /\ parseInt(transactions[k].timeStamp) >= startTimestamp
      /\ parseInt(transactions[k].timeStamp) < endTimestamp }

\* C20: DailyAnalysis.transactions holds exactly one TransactionProfit per
\* retained record, in the order the retained records have in the fetched
\* batch, each with the hash, blockNumber and from of its record.
C20_OneEntryPerRetained ==
  pc = "done" =>
    LET out == analysis.transactions
    IN /\ Len(out) = Cardinality(Retained)
       /\ \A k \in Retained :
            \E j \in 1..Len(out) :
              /\ out[j].hash = transactions[k].hash
              /\ out[j].blockNumber = transactions[k].blockNumber
              /\ out[j].from = transactions[k].from
              /\ Cardinality({ r \in Retained : r < k }) = j - 1

C20_Witness ==
  /\ pc = "done"
  /\ Len(analysis.transactions) = 2
  /\ PositionOf(analysis.transactions[1].hash) = 1
  /\ PositionOf(analysis.transactions[2].hash) = 2

(***************************************************************************)
(* The pMap fan-outs: the contract discovery script (part_002, one          *)
(* getTransactionByHash per hash) and the batch profit script              *)
(* (swaap-profit.ts, one getTransactionProfit per hash).                   *)
(***************************************************************************)
HashOf(k) == <<"0", "x">> \o DecString(k)

HashNumber(hash) == parseInt(SubSeq(hash, 3, Len(hash)))

\* the input file: distinct hashes in any order
FanInputs ==
  UNION { { h \in [1..n -> {HashOf(k) : k \in 1..MaxHashes}] :
              \A i, j \in 1..n : i # j => h[i] # h[j] } : n \in 0..MaxHashes }

\* what the upstream holds for a hash: every third transaction creates a
\* contract and has no `to`
TransactionOf(hash) ==
  [ to |-> IF HashNumber(hash) % 3 = 1 THEN <<"0", "x", "c">>
           ELSE IF HashNumber(hash) % 3 = 2 THEN <<"0", "x", "d">> ELSE << >>,
    toIsNull |-> HashNumber(hash) % 3 = 0 ]

EigenphiOf(hash) ==
  [ gasCost |-> 1, priceInUsd |-> 2, revenue |-> 10 + HashNumber(hash),
    profit |-> HashNumber(hash), cost |-> 5 ]

FanOutcomes == {"ok", "null", "throw"}

\* Ethereum.getTransactionByHash: the transaction, null for an unknown hash,
\* and null as well when the request fails
getTransactionByHash(outcome, hash) ==
  IF outcome = "ok"
  THEN [ threw |-> FALSE, isNull |-> FALSE, to |-> TransactionOf(hash).to,
         toIsNull |-> TransactionOf(hash).toIsNull ]
  ELSE [ threw |-> FALSE, isNull |-> TRUE, to |-> << >>, toIsNull |-> TRUE ]

\* variant: transaction.to without the optional chaining
DiscoveryMapper_noGuard(r) ==
  IF r.threw \/ r.isNull
  THEN [rejected |-> TRUE, value |-> << >>]
  ELSE [rejected |-> FALSE, value |-> IF r.toIsNull THEN << >> ELSE r.to]

\* part_002 32-38: await the lookup, then transaction?.to ?? ""
DiscoveryMapper(r) ==
  IF r.threw
  THEN [rejected |-> TRUE, value |-> << >>]
  ELSE [ rejected |-> FALSE,
         value |-> IF r.isNull \/ r.toIsNull THEN << >> ELSE r.to ]

\* ethereum.ts 74-113: the metrics of a transaction, the placeholder with an
\* empty hash when the request fails or its body lacks a field
EmptyProfit ==
  [hash |-> << >>, revenue |-> 0, gasFee |-> 0, profit |-> 0, builderPay |-> 0]

getTransactionProfit(outcome, hash) ==
  IF outcome = "ok"
  THEN LET data == EigenphiOf(hash)
           gasFee == data.gasCost * data.priceInUsd
       IN [ hash |-> hash, revenue |-> data.revenue, gasFee |-> gasFee,
            profit |-> data.profit, builderPay |-> data.cost - gasFee ]
  ELSE EmptyProfit

\* swaap-profit.ts 22-26
ProfitMapper(detail) == [rejected |-> FALSE, value |-> detail]

\* variant: no concurrency option, every item starts at once
initialStarts_unbounded(n, concurrency) == n

\* pMap starts the first `concurrency` items synchronously
initialStarts(n, concurrency) == IF n < concurrency THEN n ELSE concurrency

\* variant: results appended in completion order
storeAt_completionOrder(results, index, value, settled) ==
  [results EXCEPT ![settled + 1] = value]

\* pMap stores a mapper's value at the index of its input
storeAt(results, index, value, settled) == [results EXCEPT ![index] = value]

\* variant: the promise settles as soon as the last item has been started
allSettled_iteratorDone(inflight, next, n) == next > n

\* `await pMap(...)`: the promise settles when the input is exhausted and no
\* mapper is pending
allSettled(inflight, next, n) == next > n /\ inflight = {}

\* new Set(results) spread into an array: first occurrences, in order
RECURSIVE Dedupe(_)
Dedupe(xs) ==
  IF xs = << >> THEN << >>
  ELSE LET init == Dedupe(SubSeq(xs, 1, Len(xs) - 1))
           last == xs[Len(xs)]
       IN IF \E k \in 1..Len(init) : init[k] = last THEN init
          ELSE Append(init, last)

\* variant: the profit results written without the filter on hash
Output_unfiltered(kind, results) ==
  IF kind = "discovery" THEN Dedupe(results) ELSE results

\* part_002 46-51 and swaap-profit.ts 36: what is written to the file
Output(kind, results) ==
  IF kind = "discovery" THEN Dedupe(results)
  ELSE SelectSeq(results, LAMBDA res : res.hash # << >>)

InitFan ==
  /\ IdleConfig
  /\ IdlePipe
  /\ IdleProfit
  /\ IdleBatch
  /\ fkind \in {"discovery", "profit"}
  /\ fhashes \in FanInputs
  /\ fnext = initialStarts(Len(fhashes), Concurrency) + 1
  /\ finflight = 1..initialStarts(Len(fhashes), Concurrency)
  /\ fdone = {}
  /\ foutcome = [k \in 1..Len(fhashes) |-> "pending"]
  /\ fresults =
       [k \in 1..Len(fhashes) |->
          IF fkind = "discovery" THEN << >> ELSE EmptyProfit]
  /\ ferrors = {}
  /\ fpc = IF fhashes = << >> THEN "written" ELSE "running"
  /\ ffile = << >>
  /\ foutOfOrder = FALSE

\* pMap's completion handler for item i with the mapper's outcome: store or
\* record the error, start the next item, and once nothing is pending settle
\* the promise; stopOnError: false rejects only then, with an AggregateError,
\* otherwise the script goes on to write its file
pMapSettle(i, outcome, mapped) ==
  LET n == Len(fhashes)
      startsNext == fnext <= n
      inflight == (finflight \ {i}) \cup (IF startsNext THEN {fnext} ELSE {})
      next == IF startsNext THEN fnext + 1 ELSE fnext
      results == IF mapped.rejected THEN fresults
                 ELSE storeAt(fresults, i, mapped.value, Cardinality(fdone))
      errors == IF mapped.rejected THEN ferrors \cup {i} ELSE ferrors
  IN /\ foutcome' = [foutcome EXCEPT ![i] = outcome]
     /\ foutOfOrder' = (foutOfOrder \/ \E j \in finflight : j < i)
     /\ finflight' = inflight
     /\ fnext' = next
     /\ fdone' = fdone \cup {i}
     /\ fresults' = results
     /\ ferrors' = errors
     /\ IF allSettled(inflight, next, n)
        THEN IF errors # {}
             THEN /\ fpc' = "rejected"
                  /\ UNCHANGED ffile
             ELSE /\ fpc' = "written"
                  /\ ffile' = Output(fkind, results)
        ELSE UNCHANGED <<fpc, ffile>>

\* one getTransactionByHash settles
DiscoveryLookupDone ==
  /\ fkind = "discovery"
  /\ fpc = "running"
  /\ \E i \in finflight, outcome \in FanOutcomes :
       pMapSettle(i, outcome,
                  DiscoveryMapper(getTransactionByHash(outcome, fhashes[i])))
  /\ UNCHANGED <<fkind, fhashes, nonFanVars>>

\* one getTransactionProfit settles
ProfitLookupDone ==
  /\ fkind = "profit"
  /\ fpc = "running"
  /\ \E i \in finflight, outcome \in FanOutcomes :
       pMapSettle(i, outcome,
                  ProfitMapper(getTransactionProfit(outcome, fhashes[i])))
  /\ UNCHANGED <<fkind, fhashes, nonFanVars>>

NextFan ==
  \/ DiscoveryLookupDone
  \/ ProfitLookupDone

SpecFan == InitFan /\ [][NextFan]_vars

\* the mapper's value for an input, from the upstream's answer alone
ExpectedResult(kind, hash, outcome) ==
  IF kind = "discovery"
  THEN IF outcome = "ok" /\ HashNumber(hash) % 3 = 1 THEN <<"0", "x", "c">>
       ELSE IF outcome = "ok" /\ HashNumber(hash) % 3 = 2 THEN <<"0", "x", "d">>
       ELSE << >>
  ELSE IF outcome = "ok"
       THEN [ hash |-> hash, revenue |-> 10 + HashNumber(hash), gasFee |-> 2,
              profit |-> HashNumber(hash), builderPay |-> 3 ]
       ELSE [ hash |-> << >>, revenue |-> 0, gasFee |-> 0, profit |-> 0,
              builderPay |-> 0 ]

AllItems == 1..Len(fhashes)

C16_InFlightBounded == Cardinality(finflight) <= Concurrency

C16_Witness ==
  /\ Cardinality(finflight) = Concurrency
  /\ Len(fhashes) > Concurrency
  /\ fdone # {}

\* C17: the result at position i is the result of the lookup of the input at
\* position i, for every completion order.
C17_ResultsAligned ==
  /\ \A i \in fdone : fresults[i] = ExpectedResult(fkind, fhashes[i], foutcome[i])
  /\ fpc = "written" => Len(fresults) = Len(fhashes)

C17_Witness ==
  /\ fpc = "written"
  /\ foutOfOrder
  /\ \E i, j \in AllItems :
       /\ foutcome[i] = "ok"
       /\ foutcome[j] = "ok"
       /\ fresults[i] # fresults[j]

\* C18: the merge and the write of the output file happen only after every
\* input item's lookup has completed or failed; nothing is written while a
\* lookup is in flight or not yet started.
C18_WriteAfterAllSettled ==
  (fpc = "written" \/ ffile # << >>) =>
    /\ finflight = {}
    /\ fnext > Len(fhashes)
    /\ fdone = AllItems

C18_Witness ==
  /\ fpc = "written"
  /\ Len(fhashes) > Concurrency
  /\ ffile # << >>

(***************************************************************************)
(* The entry points that take a date and addresses: main.ts and            *)
(* check-profit.ts, from the start of main to the first awaited call.      *)
(***************************************************************************)
IsHexChar(c) ==
  \/ IsDigit(c)
  \/ c \in {"a", "b", "c", "d", "e", "f", "A", "B", "C", "D", "E", "F"}

\* part_001 64-67: /^0x[a-fA-F0-9]{40}$/
validateEthereumAddress(address) ==
  /\ Len(address) = 2 + AddressHexLength
  /\ address[1] = "0"
  /\ address[2] = "x"
  /\ \A k \in 3..Len(address) : IsHexChar(address[k])

\* part_001 48-51: /^\d{4}-\d{2}-\d{2}$/
DateRegex(dateString) ==
  /\ Len(dateString) = 10
  /\ \A k \in {1, 2, 3, 4, 6, 7, 9, 10} : IsDigit(dateString[k])
  /\ dateString[5] = "-"
  /\ dateString[8] = "-"

\* part_001 54-55: new Date("YYYY-MM-DD") is a valid Date when the month is
\* 01..12 and the day 01..31 (V8 rolls a day past the end of a month over)
DateParses(dateString) ==
  /\ Number(SubSeq(dateString, 6, 7)) \in 1..12
  /\ Number(SubSeq(dateString, 9, 10)) \in 1..31

validateDate(dateString) == DateRegex(dateString) /\ DateParses(dateString)

HexRun(c, n) == [k \in 1..n |-> c]

\* values of SMART_CONTRACT_ADDRESS / MAIN_WALLET_ADDRESS: two well-formed
\* ones, one a character short, one with a non-hexadecimal character, one
\* without the prefix, and the unset variable
AddressInputs ==
  { <<"0", "x">> \o HexRun("a", AddressHexLength),
    <<"0", "x", "A">> \o HexRun("b", AddressHexLength - 1),
    <<"0", "x">> \o HexRun("a", AddressHexLength - 1),
    <<"0", "x", "g">> \o HexRun("a", AddressHexLength - 1),
    HexRun("a", AddressHexLength + 2),
    << >> }

\* values of --date: a date, one without zero padding, one with slashes and
\* month 13
DateInputs ==
  { <<"2", "0", "2", "5", "-", "0", "9", "-", "1", "0">>,
    <<"2", "0", "2", "5", "-", "9", "-", "1", "0">>,
    <<"2", "0", "2", "5", "/", "0", "9", "/", "1", "0">>,
    <<"2", "0", "2", "5", "-", "1", "3", "-", "0", "1">> }

InitEntry ==
  /\ IdleProfit
  /\ IdleBatch
  /\ IdleFan
  /\ entry \in {"main", "checkProfit"}
  /\ date \in DateInputs
  /\ contractAddress \in IF entry = "main" THEN AddressInputs ELSE {<< >>}
  /\ mainWalletAddress \in AddressInputs
  /\ chain = << >>
  /\ head = 1
  /\ pc = "start"
  /\ startTimestamp = 0
  /\ endTimestamp = 0
  /\ latestBlock = 0
  /\ startBlock = 0
  /\ endBlock = 0
  /\ transactions = << >>
  /\ dayTransactions = << >>
  /\ analyzedTransactions = << >>
  /\ analysis = NoAnalysis
  /\ fetchOutcome = "none"
  /\ lookupFailed = {}
  /\ calls = << >>
  /\ clockRead = 0
  /\ resolvedEnd = 0
  /\ exitCode = << >>
  /\ outstanding = 0
  /\ report = NoReport

\* the process ends with code 1 before the analyzer exists
ExitEarly ==
  /\ pc' = "failed"
  /\ exitCode' = <<1>>
  /\ UNCHANGED <<configVars, calls, outstanding>>

\* the analyzer is constructed and analyzeDailyTransactions runs up to its
\* first await, getLatestBlock
StartAnalysis(cAddr, wAddr) ==
  /\ contractAddress' = toLowerCase(cAddr)
  /\ mainWalletAddress' = toLowerCase(wAddr)
  /\ calls' = Append(calls, "getLatestBlock")
  /\ outstanding' = outstanding + 1
  /\ pc' = "getLatestBlock"
  /\ UNCHANGED <<date, exitCode>>

\* main.ts 20-84
MainStart ==
  /\ entry = "main"
  /\ pc = "start"
  /\ IF \/ contractAddress = << >>
        \/ mainWalletAddress = << >>
        \/ ~validateDate(date)
        \/ ~validateEthereumAddress(contractAddress)
        \/ ~validateEthereumAddress(mainWalletAddress)
     THEN ExitEarly
     ELSE StartAnalysis(contractAddress, mainWalletAddress)
  /\ UNCHANGED <<entry, clockRead, resolvedEnd, report, ledgerVars, startTimestamp,
                 endTimestamp, latestBlock, startBlock, endBlock, transactions,
                 dayTransactions, analyzedTransactions, analysis, fetchOutcome,
                 lookupFailed, nonPipeVars>>

\* the analyzer check-profit.ts constructs from the API key and the wallet
\* address alone
ContractAnalyzerOfWallet(wAddr) == StartAnalysis(<< >>, wAddr)

\* check-profit.ts 37-86
CheckProfitStart ==
  /\ entry = "checkProfit"
  /\ pc = "start"
  /\ IF mainWalletAddress = << >> \/ ~validateDate(date)
     THEN ExitEarly
     ELSE ContractAnalyzerOfWallet(mainWalletAddress)
  /\ UNCHANGED <<entry, clockRead, resolvedEnd, report, ledgerVars, startTimestamp,
                 endTimestamp, latestBlock, startBlock, endBlock, transactions,
                 dayTransactions, analyzedTransactions, analysis, fetchOutcome,
                 lookupFailed, nonPipeVars>>

NextEntry ==
  \/ MainStart
  \/ CheckProfitStart

SpecEntry == InitEntry /\ [][NextEntry]_vars

\* a date of the form YYYY-MM-DD with a month and a day of the calendar
WellFormedDate(d) ==
  /\ Len(d) = 10
  /\ \A k \in {1, 2, 3, 4, 6, 7, 9, 10} : d[k] \in {Digits[n] : n \in 1..10}
  /\ d[5] = "-" /\ d[8] = "-"
  /\ DigitVal(d[6]) * 10 + DigitVal(d[7]) \in 1..12
  /\ DigitVal(d[9]) * 10 + DigitVal(d[10]) \in 1..31

\* 0x and 40 hexadecimal characters
WellFormedAddress(a) ==
  /\ Len(a) = 42
  /\ SubSeq(a, 1, 2) = <<"0", "x">>
  /\ \A k \in 3..42 :
       a[k] \in {"0", "1", "2", "3", "4", "5", "6", "7", "8", "9", "a", "b",
                 "c", "d", "e", "f", "A", "B", "C", "D", "E", "F"}

MalformedInput ==
  \/ ~WellFormedDate(date)
  \/ entry = "main" /\ ~WellFormedAddress(contractAddress)
  \/ ~WellFormedAddress(mainWalletAddress)

\* C19: in every entry point a malformed date or a malformed address
\* (contract or main wallet) is rejected with a non-zero exit before any
\* network call is issued.
C19_MalformedInputRejected ==
  (pc # "start" /\ MalformedInput) =>
    /\ calls = << >>
    /\ exitCode # << >>
    /\ exitCode[1] # 0

(***************************************************************************)
(* The order of the pipeline's calls and phases.                           *)
(***************************************************************************)
\* C21: in the primary pipeline at most one external call is outstanding at
\* any time; each call starts only after the previous one has returned.
C21_OneCallOutstanding ==
  /\ outstanding <= 1
  /\ pc \in {"getLatestBlock", "getStartBlock", "getEndBlock",
             "getContractTransactions", "analyzeTransaction", "done"} =>
       outstanding = 1
  /\ pc \in {"failed", "reported"} => outstanding = 0

C21_Witness ==
  /\ pc = "analyzeTransaction"
  /\ Len(dayTransactions) = 2
  /\ Len(analyzedTransactions) = 1
  /\ outstanding = 1

\* resolve, fetch, calculate, aggregate, and the end of the run
PhaseOf(label) ==
  CASE label \in {"getLatestBlock", "getStartBlock", "getEndBlock"} -> 1
    [] label = "getContractTransactions" -> 2
    [] label = "analyzeTransaction" -> 3
    [] label = "done" -> 4
    [] OTHER -> 5

CallCount(name) == Cardinality({k \in 1..Len(calls) : calls[k] = name})

\* C22: one invocation of analyzeDailyTransactions passes through resolve,
\* fetch, calculate, aggregate in that order: no phase is entered twice, no
\* earlier phase is re-entered, and the block range is never changed once
\* the fetch has begun.
C22_SingleForwardPass ==
  [][ /\ PhaseOf(pc') >= PhaseOf(pc)
      /\ PhaseOf(pc) >= 2 => (startBlock' = startBlock /\ endBlock' = endBlock)
      /\ CallCount("getLatestBlock")' <= 1
      /\ CallCount("getBlockByTimestamp(after)")' <= 1
      /\ CallCount("getBlockByTimestamp(before)")' <= 1
      /\ CallCount("getContractTransactions")' <= 1
      /\ CallCount("getInternalTransactions")' <= Len(dayTransactions') ]_vars

C22_Witness ==
  /\ pc = "done"
  /\ Issued("getBlockByTimestamp(before)")
  /\ CallCount("getInternalTransactions") = 2
  /\ analysis.totalTransactions = 2

\* C23: a failed price lookup yields the price 0 and neither aborts the run
\* nor changes a field of the DailyAnalysis already computed; the report is
\* still produced.
C23_PriceFailureYieldsZero ==
  /\ [](Issued("getEthPrice") =>
          /\ pc \in {"done", "reported"}
          /\ exitCode = << >>
          /\ analysis # NoAnalysis)
  /\ [](pc = "reported" =>
          /\ report.outcome # "ok" => report.ethPrice = 0
          /\ report.outcome = "ok" => report.ethPrice = EthUsd
          /\ report.analysis = analysis)
  /\ [][pc = "done" => (analysis' = analysis /\ pc' = "reported")]_vars

C23_Witness ==
  /\ pc = "reported"
  /\ report.outcome = "throw"
  /\ report.ethPrice = 0
  /\ report.analysis.totalTransactions > 0

(***************************************************************************)
(* The windows of a batching loop.                                         *)
(***************************************************************************)
\* the records of the first n windows of a run, window after window
RECURSIVE WindowRecords(_, _)
WindowRecords(windows, n) ==
  IF n = 0 THEN << >>
  ELSE WindowRecords(windows, n - 1)
         \o RecordsIn(brecords, windows[n][1], windows[n][2])

Smaller(a, b) == IF a < b THEN a ELSE b

\* C24: in every batching loop the windows start at startBlock,
\* startBlock + W, startBlock + 2W, ... in strictly increasing order, each
\* upper bound is min(cursor + W, endBlock), no window extends beyond
\* endBlock, and the step results are concatenated in the order the windows
\* are issued.
C24_WindowSequence ==
  \A r \in 1..brun :
    LET windows == bwindows[r]
        W == bstep[r]
    IN /\ \A k \in 1..Len(windows) :
            /\ windows[k][1] = bfrom + (k - 1) * W
            /\ windows[k][2] = Smaller(windows[k][1] + W, bto)
            /\ windows[k][2] <= bto
            /\ k > 1 => windows[k][1] > windows[k - 1][1]
       /\ bresult[r] = WindowRecords(windows, Len(windows))

C24_Witness ==
  /\ bpc = "done"
  /\ brun = 1
  /\ Len(bwindows[1]) >= 2
  /\ bwindows[1][Len(bwindows[1])][2] < bwindows[1][Len(bwindows[1])][1] + bstep[1]
  /\ Len(bresult[1]) >= 2
  /\ bresult[1][1] # bresult[1][Len(bresult[1])]

\* C25: for every startBlock <= endBlock and step W > 0, every block of
\* [startBlock, endBlock] lies inside at least one issued window, the case
\* startBlock = endBlock included, in each of the batching loops.
C25_EveryBlockCovered ==
  (bpc = "done" /\ brun = 1) =>
    \A b \in bfrom..bto :
      \E k \in 1..Len(bwindows[1]) :
        bwindows[1][k][1] <= b /\ b <= bwindows[1][k][2]

\* C26: within one batched fetch no block is queried by two different
\* windows, so a record of a block appears at most once in the concatenated
\* result.
C26_WindowsDisjoint ==
  \A r \in 1..brun :
    /\ \A j, k \in 1..Len(bwindows[r]) :
         j < k => bwindows[r][j][2] < bwindows[r][k][1]
    /\ \A j, k \in 1..Len(bresult[r]) :
         j # k => bresult[r][j] # bresult[r][k]

(***************************************************************************)
(* The two selections of analyzeTransaction.                               *)
(***************************************************************************)
\* whether the filter of line 165, of line 172, keeps the transfer at k
InWalletSelection(k) ==
  contractToWalletTxs(<<ReturnedTransfers[k]>>, contractAddress,
                      mainWalletAddress) # << >>

InOriginSelection(k) ==
  contractToOriginTxs(ptx, <<ReturnedTransfers[k]>>, contractAddress,
                      mainWalletAddress) # << >>

\* C27: no internal transfer is counted in both contractToWalletValue and
\* contractToOriginValue: the two selections are disjoint for every
\* transaction, and when transaction.from is the main wallet
\* contractToOriginValue is 0.
C27_SelectionsDisjoint ==
  ppc = "returned" =>
    /\ \A k \in 1..Len(ReturnedTransfers) :
         ~(InWalletSelection(k) /\ InOriginSelection(k))
    /\ pprofit.totalInternalValue =
         SumAt(ReturnedTransfers,
               { k \in 1..Len(ReturnedTransfers) :
                   InWalletSelection(k) \/ InOriginSelection(k) })
    /\ SameAddress(ptx.from, mainWalletAddress) =>
         pprofit.contractToOriginValue = 0

C27_Witness ==
  /\ ppc = "returned"
  /\ poutcome = "ok"
  /\ SameAddress(ptx.from, mainWalletAddress)
  /\ pprofit.contractToWalletValue > 0
  /\ pprofit.contractToOriginValue = 0
  /\ \E k \in 1..Len(pinternal) : SameAddress(pinternal[k].to, ptx.from)

(***************************************************************************)
(* What the fan-out scripts persist.                                       *)
(***************************************************************************)
\* C28: the contract addresses persisted by the address-discovery script
\* contain no empty string.
C28_NoEmptyAddress ==
  (fkind = "discovery" /\ fpc = "written") =>
    \A k \in 1..Len(ffile) : ffile[k] # << >>

\* the metrics of the lookups that succeeded, in input order
RECURSIVE SucceededUpTo(_)
SucceededUpTo(n) ==
  IF n = 0 THEN << >>
  ELSE IF foutcome[n] = "ok"
       THEN Append(SucceededUpTo(n - 1),
                   ExpectedResult("profit", fhashes[n], "ok"))
       ELSE SucceededUpTo(n - 1)

\* C29: in the batch profit script a failing getTransactionProfit call does
\* not stop the other lookups, and the persisted output holds exactly the
\* results of the lookups that succeeded, in input order, with no
\* placeholder (hash = "") entry.
C29_SucceededPersisted ==
  fkind = "profit" =>
    /\ fpc # "rejected"
    /\ ferrors = {}
    /\ fpc = "written" =>
         /\ fdone = AllItems
         /\ \A k \in AllItems : foutcome[k] # "pending"
         /\ ffile = SucceededUpTo(Len(fhashes))
         /\ \A k \in 1..Len(ffile) : ffile[k].hash # << >>

C29_Witness ==
  /\ fkind = "profit"
  /\ fpc = "written"
  /\ Len(fhashes) = MaxHashes
  /\ foutcome[1] = "throw"
  /\ foutcome[2] = "ok"
  /\ foutcome[3] = "ok"
  /\ foutOfOrder
  /\ Len(ffile) = 2

(***************************************************************************)
(* Termination.                                                            *)
(***************************************************************************)
\* the most windows a loop over [bfrom, bto] with step W may issue
MaxWindows(W) == (bto - bfrom) \div W + 1

\* C30: provided every external call eventually returns or fails, each run
\* terminates: a batching loop over [startBlock, endBlock] with step W > 0
\* issues at most (endBlock - startBlock) / W + 1 windows and comes to its
\* end, and analyzeDailyTransactions eventually returns a DailyAnalysis or
\* fails.
C30_RunsTerminate ==
  /\ [](bkind # "none" => Len(bwindows[brun]) <= MaxWindows(bstep[brun]))
  /\ <>(\/ bkind # "none" /\ bpc \in {"done", "aborted"}
        \/ entry = "main" /\ (analysis # NoAnalysis \/ pc = "failed"))

C30_Witness ==
  \/ /\ bkind = "events"
     /\ bpc = "done"
     /\ bfrom < bto
     /\ bstep[brun] > 1
     /\ bfaulted
     /\ Len(bwindows[brun]) = MaxWindows(bstep[brun])
     /\ Len(bwindows[brun]) > 1
  \/ /\ entry = "main"
     /\ analysis # NoAnalysis
     /\ Len(analysis.transactions) > 1
     /\ lookupFailed # {}

====
